---------------------------- MODULE Spec2Model ----------------------------
(***************************************************************************)
(* Model of tools/cifp_parser.py: the CIFP-to-EndlessATC transform.        *)
(*                                                                         *)
(* The program is a sequential batch job.  Its state is the parsed input   *)
(* (one list of records per airport plus the global fixes), the position   *)
(* of the main loop, the two numbering counters, the beacon index of the   *)
(* running parse_* call, the merged routes of the last pass, and the       *)
(* three output files of every airport.  One action per function called    *)
(* from the main loop: write_stars, write_approaches, write_sids.          *)
(*                                                                         *)
(* Representation of the program's strings:                                *)
(*  - an identifier (fix, procedure, runway) is a TLA+ string;             *)
(*  - a transition field is [rt, name]: the one-character route type of    *)
(*    CIFP column 20 followed by the transition identifier, so that the    *)
(*    code's transition[1:] is the field name;                             *)
(*  - an approach identifier is [t, rw]: its first character and the       *)
(*    rest, so that the code's approach_id[1:] is the field rw;            *)
(*  - a route key f'{head}.{proc}' is [head, proc];                        *)
(*  - an altitude field is [k, n]: k = "none" for the empty string,        *)
(*    "ft" for a plain number n, "FL" for the text 'FL' followed by n;     *)
(*  - a speed field is [k, n]: k = "none" for the empty string, "str"      *)
(*    for the digits of n; a running speed is [str, n], str telling        *)
(*    whether the Python value is a str (taken from a record) or an int;   *)
(*  - a final length is in tenths of a mile (9.5 is 95).                   *)
(* Coordinates, display names and the static runway rename table take no   *)
(* part in any decision of the code and are left out of the lines.         *)
(***************************************************************************)
EXTENDS Integers, Sequences, FiniteSets, TLC

\* ------------------------------------------------------------ static tables

star_default_top_alt == 14000
star_default_top_speed == 250
apch_default_top_alt == 6000
apch_default_top_speed == 250
max_approach_alt == 2500
max_approach_speed == 220

EP(b, a, s) == [bearing |-> b, alt |-> a, speed |-> s]

entrypoints ==
    [n \in {"HAARP", "KORRY", "BEUTY", "KARRS", "IGN", "HARTY", "CCC",
            "LOVES", "BRAND", "DYLIN", "FLOSI"} |->
        CASE n = "HAARP" -> EP(330, 6000, 220)
          [] n = "KORRY" -> EP(220, 8000, 220)
          [] n = "BEUTY" -> EP(260, 10000, 220)
          [] n = "KARRS" -> EP(180, 11000, 250)
          [] n = "IGN"   -> EP(360, 14000, 250)
          [] n = "HARTY" -> EP(270, 14000, 250)
          [] n = "CCC"   -> EP(240, 12000, 250)
          [] n = "LOVES" -> EP(360, 6000, 220)
          [] n = "BRAND" -> EP(240, 7000, 220)
          [] n = "DYLIN" -> EP(200, 8000, 220)
          [] n = "FLOSI" -> EP(360, 8000, 220)]

alt_min_speeds == (7000 :> 220) @@ (3000 :> 200)

FF(l, a, s) == [final_length |-> l, alt |-> a, speed |-> s]

final_app_fixes ==
    [n \in {"ROSLY", "ZETAL", "AROKE", "TELEX", "CORVT", "ZACHS", "MALDE",
            "GRENE", "PAYMI", "YOMAN", "KILMA", "EMBAY", "GRITY", "JARIT",
            "GIMEE", "AGNSS", "RIVRA", "CATOD", "TICKL", "QUENE", "GEMKE"} |->
        CASE n = "ROSLY" -> FF(95, 1800, 200)
          [] n = "ZETAL" -> FF(100, 1800, 200)
          [] n = "AROKE" -> FF(100, 1500, 200)
          [] n = "TELEX" -> FF(75, 1500, 180)
          [] n = "CORVT" -> FF(96, 2500, 200)
          [] n = "ZACHS" -> FF(100, 1800, 200)
          [] n = "MALDE" -> FF(85, 2500, 200)
          [] n = "GRENE" -> FF(100, 1700, 200)
          [] n = "PAYMI" -> FF(85, 1900, 200)
          [] n = "YOMAN" -> FF(100, 1900, 200)
          [] n = "KILMA" -> FF(100, 2000, 200)
          [] n = "EMBAY" -> FF(100, 2000, 200)
          [] n = "GRITY" -> FF(100, 2500, 200)
          [] n = "JARIT" -> FF(97, 1600, 200)
          [] n = "GIMEE" -> FF(73, 1500, 180)
          [] n = "AGNSS" -> FF(94, 2500, 200)
          [] n = "RIVRA" -> FF(100, 2500, 200)
          [] n = "CATOD" -> FF(100, 3000, 200)
          [] n = "TICKL" -> FF(100, 2000, 200)
          [] n = "QUENE" -> FF(100, 1700, 200)
          [] n = "GEMKE" -> FF(85, 1700, 200)]

airports == <<"KJFK", "KLGA", "KEWR">>

\* ------------------------------------------------------------ Python values

MinOf(a, b) == IF a <= b THEN a ELSE b

MaxOfSet(S) == CHOOSE m \in S : \A x \in S : x <= m

SeqToSet(s) == {s[k] : k \in DOMAIN s}

\* A dict (insertion ordered): a sequence of [key, val] with distinct keys.
Keys(d) == [k \in DOMAIN d |-> d[k].key]

Has(d, key) == \E k \in DOMAIN d : d[k].key = key

\* d[key] of a defaultdict: the stored value, or the default's value.
Get(d, key, default) ==
    IF Has(d, key) THEN d[CHOOSE k \in DOMAIN d : d[k].key = key].val
    ELSE default

\* d[key] = val: in place for a key the dict holds, at the end for a new one.
Put(d, key, val) ==
    IF Has(d, key)
    THEN [k \in DOMAIN d |->
            IF d[k].key = key THEN [key |-> key, val |-> val] ELSE d[k]]
    ELSE Append(d, [key |-> key, val |-> val])

\* d[outer][inner] += legs on a defaultdict of defaultdicts of lists.
AddLegs(d, outer, inner, legs) ==
    LET row == Get(d, outer, <<>>)
    IN  Put(d, outer, Put(row, inner, Get(row, inner, <<>>) \o legs))

NoVal == [k |-> "none", n |-> 0]

\* bool(field) of a record's text field: the empty string is false.
Given(field) == field.k # "none"

\* The identifiers of the model, in the order Python's sorted() gives them.
NameOrder ==
    <<"", "CAMRN", "DPK", "HAARP", "KARRS", "KEWR", "KJFK", "KLGA", "LENDY",
      "NOFIX", "ROSLY", "TELEX">>

\* sorted(set(names))
Sorted(names) ==
    SelectSeq(NameOrder, LAMBDA n : n \in SeqToSet(names))

\* a in b for two identifiers: b holds a as a substring.  Among the
\* procedure identifiers of the model only "LENDY" lies inside another
\* ("LENDY8").
SubStr(a, b) == a = b \/ (a = "LENDY" /\ b = "LENDY8")

\* star_id in name, for a route key name = f'{head}.{proc}' (no identifier
\* holds a dot, so a match lies within head or within proc).
InKey(id, name) == SubStr(id, name.head) \/ SubStr(id, name.proc)

\* ------------------------------------------------------------ beacon index

\* The loop every write_* function starts with: an airport record ('A') is
\* indexed under its airport field, a terminal fix ('C') under its id; a
\* later record replaces an earlier one of the same key.  The index maps a
\* name to the id field of its record.
UpdateBeacons(lines, beacons) ==
    LET f[n \in 0..Len(lines)] ==
            IF n = 0 THEN beacons
            ELSE LET l == lines[n]
                 IN  IF l.type = "A" THEN (l.apt :> [id |-> l.id]) @@ f[n - 1]
                     ELSE IF l.type = "C" THEN (l.id :> [id |-> l.id]) @@ f[n - 1]
                     ELSE f[n - 1]
    IN  f[Len(lines)]

\* all_runways = [line['id'] for line in lines if line['type'] == 'G']
AllRunways(lines) ==
    LET g == SelectSeq(lines, LAMBDA l : l.type = "G")
    IN  [k \in DOMAIN g |-> g[k].id]

\* The trailing beacons section: one line per name of sorted(set(used_fixes)),
\* looked up in the index; a name the index lacks raises KeyError, which
\* nothing catches, and the lines written before it stay in the file.
BeaconSection(st, beacons) ==
    LET names == Sorted(st.used)
        f[n \in 0..Len(names)] ==
            IF n = 0 THEN [st EXCEPT !.out = Append(@, [k |-> "beacons"])]
            ELSE LET s == f[n - 1]
                 IN  IF s.err # "" THEN s
                     ELSE IF names[n] \notin DOMAIN beacons
                          THEN [s EXCEPT !.err = "KeyError"]
                     ELSE [s EXCEPT !.out = Append(@,
                              [k |-> "beacon", name |-> names[n],
                               id |-> beacons[names[n]].id])]
    IN  IF st.err # "" THEN st ELSE f[Len(names)]

\* ------------------------------------------------------------ write_sids

\* runway_sids: each departure record whose transition names a runway of the
\* airport joins the route of its procedure on that runway.
SidMerge(lines) ==
    LET sid_lines == SelectSeq(lines, LAMBDA l : l.type = "D")
        all_runways == SeqToSet(AllRunways(lines))
        f[n \in 0..Len(sid_lines)] ==
            IF n = 0 THEN <<>>
            ELSE LET l == sid_lines[n]
                 IN  IF l.transition.name \in all_runways
                     THEN AddLegs(f[n - 1], l.transition.name, l.id, <<l>>)
                     ELSE f[n - 1]
    IN  f[Len(sid_lines)]

\* One record of a departure route: a fix that differs from the one before
\* and is not empty is looked up (KeyError when the index lacks it), noted
\* as used and written.
SidLeg(s, e, beacons) ==
    IF s.err # "" THEN s
    ELSE IF s.fix_name # e.fix /\ e.fix # ""
    THEN IF e.fix \notin DOMAIN beacons
         THEN [s EXCEPT !.fix_name = e.fix, !.err = "KeyError"]
         ELSE [s EXCEPT !.fix_name = e.fix,
                        !.used = Append(@, e.fix),
                        !.out = Append(@, [k |-> "fix", fix |-> e.fix, leg |-> e])]
    ELSE s

\* One procedure of a runway: the route header, then its records.
SidRoute(s, j, sid, route, beacons) ==
    LET s0 == [s EXCEPT !.fix_name = "",
                        !.out = Append(@, [k |-> "route", j |-> j, sid |-> sid,
                                           last |-> route[Len(route)].fix])]
        f[n \in 0..Len(route)] ==
            IF n = 0 THEN s0 ELSE SidLeg(f[n - 1], route[n], beacons)
    IN  IF s.err # "" THEN s ELSE f[Len(route)]

\* One runway: the counter advances and the [departureN] header is written.
SidRunway(s, runway, sids, beacons) ==
    LET s0 == [s EXCEPT !.i = @ + 1,
                        !.out = Append(@, [k |-> "departure", n |-> s.i + 1,
                                           runway |-> runway])]
        f[j \in 0..Len(sids)] ==
            IF j = 0 THEN s0
            ELSE SidRoute(f[j - 1], j, sids[j].key, sids[j].val, beacons)
    IN  IF s.err # "" THEN s ELSE f[Len(sids)]

\* The output loop of write_sids and its beacons section.
SidOutput(runway_sids, beacons, start_index) ==
    LET f[n \in 0..Len(runway_sids)] ==
            IF n = 0
            THEN [out |-> <<>>, i |-> start_index, used |-> <<>>,
                  fix_name |-> "", err |-> ""]
            ELSE SidRunway(f[n - 1], runway_sids[n].key, runway_sids[n].val, beacons)
    IN  [st |-> BeaconSection(f[Len(runway_sids)], beacons),
         beacons |-> beacons, merged |-> runway_sids]

\* The value a pass hands back: the file, the counter returned, the index
\* as updated, the merged routes.
Result(body) ==
    [file |-> body.st.out, i |-> body.st.i, err |-> body.st.err,
     beacons |-> body.beacons, merged |-> body.merged]

\* write_sids
write_sids(lines, beacons0, start_index) ==
    Result(SidOutput(SidMerge(lines), UpdateBeacons(lines, beacons0), start_index))

\* ------------------------------------------------------------ write_stars

\* The records of one type grouped by procedure id, in file order
\* (star_list, approach_list).
ById(ls) ==
    LET f[n \in 0..Len(ls)] ==
            IF n = 0 THEN <<>>
            ELSE LET d == f[n - 1]
                 IN  Put(d, ls[n].id, Get(d, ls[n].id, <<>>) \o <<ls[n]>>)
    IN  f[Len(ls)]

\* The records of one procedure grouped by transition, in file order.
ByTransition(ls) ==
    LET f[n \in 0..Len(ls)] ==
            IF n = 0 THEN <<>>
            ELSE LET d == f[n - 1]
                 IN  Put(d, ls[n].transition,
                         Get(d, ls[n].transition, <<>>) \o <<ls[n]>>)
    IN  f[Len(ls)]

\* re.match(r'.?RW[0-9]{2}.?|.?ALL', t): the route type followed by a runway
\* identifier (RW, two digits, at most one more character) or by ALL.
RunwayIdents == {"RW04", "RW22", "RW13"}
MatchesRunway(t) == t.name \in RunwayIdents \cup {"ALL"}

\* runways = [m.group(0)[1:] for m in runways if m]
StarRunways(transitions) ==
    LET m == SelectSeq(Keys(transitions), MatchesRunway)
    IN  [k \in DOMAIN m |-> m[k].name]

\* One transition of a procedure.  st = [rs, empty]: runway_stars and
\* empty_trans_exists.  A transition named after a beacon, or unnamed, is
\* registered on every runway of the procedure under its own key; one named
\* after a runway of the procedure is appended to every route of that runway
\* whose key holds the procedure id, and registered under its first fix when
\* no unnamed transition came before it.
StarTransition(st, star_id, runways, transition, tlines, beacons) ==
    LET name == transition.name
        key == [head |-> IF name # "" THEN name ELSE tlines[1].fix,
                proc |-> star_id]
        reg[n \in 0..Len(runways)] ==
            IF n = 0 THEN st.rs
            ELSE AddLegs(reg[n - 1], runways[n], key, tlines)
        row == Get(st.rs, name, <<>>)
        ext == [k \in DOMAIN row |->
                  IF InKey(star_id, row[k].key)
                  THEN [key |-> row[k].key, val |-> row[k].val \o tlines]
                  ELSE row[k]]
        rs1 == Put(st.rs, name, ext)
    IN  IF name \in DOMAIN beacons \/ name = ""
        THEN [rs |-> reg[Len(runways)], empty |-> st.empty \/ name = ""]
        ELSE IF name \in SeqToSet(runways)
        THEN [rs |-> IF ~st.empty
                     THEN AddLegs(rs1, name,
                                  [head |-> tlines[1].fix, proc |-> star_id], tlines)
                     ELSE rs1,
              empty |-> st.empty]
        ELSE st

\* One procedure: its transitions in file order, empty_trans_exists reset.
StarProcedure(rs, star_id, s_lines, beacons) ==
    LET transitions == ByTransition(s_lines)
        runways == StarRunways(transitions)
        f[n \in 0..Len(transitions)] ==
            IF n = 0 THEN [rs |-> rs, empty |-> FALSE]
            ELSE StarTransition(f[n - 1], star_id, runways,
                                transitions[n].key, transitions[n].val, beacons)
    IN  f[Len(transitions)].rs

\* runway_stars of write_stars.
StarMerge(lines, beacons) ==
    LET star_list == ById(SelectSeq(lines, LAMBDA l : l.type = "E"))
        f[n \in 0..Len(star_list)] ==
            IF n = 0 THEN <<>>
            ELSE StarProcedure(f[n - 1], star_list[n].key, star_list[n].val, beacons)
    IN  f[Len(star_list)]

\* int(alt_min), after 'FLnn' is turned into nn * 100.
AltFeet(a) == IF a.k = "FL" THEN a.n * 100 ELSE a.n

\* StarAlt with the restriction assigned instead of taken as a minimum.
StarAltAssigned(alt, e) ==
    IF Given(e.alt_min) THEN AltFeet(e.alt_min)
    ELSE IF Given(e.alt_top) THEN AltFeet(e.alt_top)
    ELSE alt

\* The altitude update of write_stars: the floor when the record has one,
\* else the ceiling when it has one, each taken only if lower.
StarAlt(alt, e) ==
    IF Given(e.alt_min) THEN MinOf(alt, AltFeet(e.alt_min))
    ELSE IF Given(e.alt_top) THEN MinOf(alt, AltFeet(e.alt_top))
    ELSE alt

\* speed_alts = [a for a in alt_min_speeds.keys() if alt <= a]
StarSpeedAlts(alt) == {a \in DOMAIN alt_min_speeds : alt <= a}

\* StarBand with the lowest band at or above the altitude: min(speed_alts).
StarBandLowest(alt) ==
    alt_min_speeds[CHOOSE m \in StarSpeedAlts(alt) : \A x \in StarSpeedAlts(alt) : m <= x]

\* The band the clamp uses: alt_min_speeds[max(speed_alts)].
StarBand(alt) == alt_min_speeds[MaxOfSet(StarSpeedAlts(alt))]

\* (entryname, runway) in transitions
StarDuplicateNever(entryname, runway, transitions) == FALSE

\* if (entryname, runway) in transitions
StarDuplicate(entryname, runway, transitions) ==
    <<entryname, runway>> \in SeqToSet(transitions)

\* used_fixes.append(fix_name) of write_stars
StarUseFix(used, fix_name) == Append(used, fix_name)

\* The first entry point of a route, not yet registered for the runway: the
\* pair is registered, the entry noted, the running altitude and speed start
\* from the entry point's (or the defaults), the counter advances and the
\* section header is written.
StarEntry(s, e, entryname, runway) ==
    [s EXCEPT
       !.entry = e.fix,
       !.trans = Append(@, <<entryname, runway>>),
       !.entries = Append(@, e.fix),
       !.alt = IF entrypoints[e.fix].alt # 0
               THEN entrypoints[e.fix].alt ELSE star_default_top_alt,
       !.speed = [str |-> FALSE,
                  n |-> IF entrypoints[e.fix].speed # 0
                        THEN entrypoints[e.fix].speed
                        ELSE star_default_top_speed],
       !.i = @ + 1,
       !.out = Append(@, [k |-> "approach", n |-> s.i + 1,
                          label |-> entryname, runway |-> runway,
                          beacon |-> e.fix,
                          bearing |-> entrypoints[e.fix].bearing])]

\* The waypoint line of a record: speed1 is the running speed after the
\* record's own speed (a string when the record has one), alt1 the altitude
\* after the update.  min() of a string and a band raises TypeError.
StarWaypoint(s, e, speed1, alt1) ==
    LET clamp == StarSpeedAlts(alt1) # {}
        speed2 == IF clamp
                  THEN [str |-> FALSE, n |-> MinOf(speed1.n, StarBand(alt1))]
                  ELSE speed1
    IN  IF clamp /\ speed1.str
        THEN [s EXCEPT !.speed = speed1, !.alt = alt1, !.err = "TypeError"]
        ELSE [s EXCEPT !.speed = speed2, !.alt = alt1,
                       !.out = Append(@, [k |-> "wpt", fix |-> e.fix,
                                          alt |-> alt1, speed |-> speed2.n,
                                          pre |-> speed1.n, leg |-> e])]

\* StarFix without the test that an entry was found.
StarFixAnyLeg(s, e, beacons) ==
    IF e.fix # s.fix_name
    THEN IF e.fix \notin DOMAIN beacons
         THEN [s EXCEPT !.fix_name = e.fix, !.err = "KeyError"]
         ELSE StarWaypoint([s EXCEPT !.fix_name = e.fix,
                                     !.used = StarUseFix(@, e.fix)],
                           e,
                           IF Given(e.speed) THEN [str |-> TRUE, n |-> e.speed.n]
                           ELSE s.speed,
                           StarAlt(s.alt, e))
    ELSE s

\* if e['fix'] != fix_name and entry: the fix is looked up (KeyError when
\* the index lacks it), noted as used, and its line written.
StarFix(s, e, beacons) ==
    IF e.fix # s.fix_name /\ s.entry # ""
    THEN IF e.fix \notin DOMAIN beacons
         THEN [s EXCEPT !.fix_name = e.fix, !.err = "KeyError"]
         ELSE StarWaypoint([s EXCEPT !.fix_name = e.fix,
                                     !.used = StarUseFix(@, e.fix)],
                           e,
                           IF Given(e.speed) THEN [str |-> TRUE, n |-> e.speed.n]
                           ELSE s.speed,
                           StarAlt(s.alt, e))
    ELSE s

\* One record of a merged route, for one runway.  s holds the locals of the
\* output loop; brk is the break of the duplicate case.
StarLeg(s, e, star, runway, beacons) ==
    LET entryname == [head |-> e.fix, proc |-> star.proc]
    IN  IF s.err # "" \/ s.brk THEN s
        ELSE IF e.fix \in DOMAIN entrypoints /\ s.entry = ""
        THEN IF StarDuplicate(entryname, runway, s.trans)
             THEN [s EXCEPT !.entry = "", !.brk = TRUE]
             ELSE StarFix(StarEntry(s, e, entryname, runway), e, beacons)
        ELSE StarFix(s, e, beacons)

\* e["hdg"].strip() or "090"
EndHeading(e) == IF e.hdg # "" THEN e.hdg ELSE "090"

\* if entry: f.write(f'    end, ...') after the records of a route.
StarEnd(s, route) ==
    IF s.err = "" /\ s.entry # ""
    THEN [s EXCEPT !.out = Append(@, [k |-> "end",
                                      hdg |-> EndHeading(route[Len(route)])])]
    ELSE s

\* One merged route on one runway: its records, then the end line when an
\* entry was found and kept.
StarRoute(s, star, route, runway, beacons) ==
    LET f[n \in 0..Len(route)] ==
            IF n = 0 THEN [s EXCEPT !.fix_name = "", !.entry = "", !.brk = FALSE]
            ELSE StarLeg(f[n - 1], route[n], star, runway, beacons)
    IN  IF s.err # "" THEN s ELSE StarEnd(f[Len(route)], route)

\* The routes of one entry of runway_stars written for one runway.
StarRunway(s, stars, runway, beacons) ==
    LET f[n \in 0..Len(stars)] ==
            IF n = 0 THEN s
            ELSE StarRoute(f[n - 1], stars[n].key, stars[n].val, runway, beacons)
    IN  f[Len(stars)]

\* One entry of runway_stars: ALL stands for every runway of the airport.
StarRunwayList(s, s_runway, stars, all_runways, beacons) ==
    LET runway_list == IF s_runway = "ALL" THEN all_runways ELSE <<s_runway>>
        f[n \in 0..Len(runway_list)] ==
            IF n = 0 THEN s
            ELSE StarRunway(f[n - 1], stars, runway_list[n], beacons)
    IN  f[Len(runway_list)]

\* for entrypoint in set(entries): the lines of the entry points section in
\* the order the set is iterated, which is one of its orders.
EntrySection(st, order) ==
    LET f[n \in 0..Len(order)] ==
            IF n = 0 THEN Append(st.out, [k |-> "entrypoints"])
            ELSE Append(f[n - 1], [k |-> "entrypoint", name |-> order[n],
                                   bearing |-> entrypoints[order[n]].bearing])
    IN  IF st.err # "" THEN st ELSE [st EXCEPT !.out = f[Len(order)]]

\* The orders in which a set of strings can be iterated: CPython hashes
\* str with a seed drawn per process, so every order of the set is one.
SetOrders(S) ==
    {o \in [1..Cardinality(S) -> S] : \A x \in S : \E k \in DOMAIN o : o[k] = x}

\* The output loop of write_stars and its beacons section.
StarOutput(runway_stars, all_runways, beacons, start_index) ==
    LET f[n \in 0..Len(runway_stars)] ==
            IF n = 0
            THEN [out |-> <<>>, i |-> start_index, used |-> <<>>, trans |-> <<>>,
                  entries |-> <<>>, alt |-> 0, speed |-> [str |-> FALSE, n |-> 0],
                  fix_name |-> "", entry |-> "", brk |-> FALSE, err |-> ""]
            ELSE StarRunwayList(f[n - 1], runway_stars[n].key, runway_stars[n].val,
                                all_runways, beacons)
    IN  [st |-> BeaconSection(f[Len(runway_stars)], beacons),
         beacons |-> beacons, merged |-> runway_stars]

\* write_stars up to the beacons section.
StarBody(lines, beacons0, start_index) ==
    StarOutput(StarMerge(lines, UpdateBeacons(lines, beacons0)), AllRunways(lines),
               UpdateBeacons(lines, beacons0), start_index)

\* write_stars: order is the order in which set(entries) is iterated.
write_stars(body, order) ==
    Result([body EXCEPT !.st = EntrySection(body.st, order)])

\* ------------------------------------------------------------ write_approaches

\* ContainsValidFaf without the test against final_app_fixes.
ContainsValidFafUnfiltered(legs) == [k \in DOMAIN legs |-> legs[k].fix]

\* contains_valid_faf: the fixes of the records that are final approach fixes.
ContainsValidFaf(legs) ==
    LET m == SelectSeq(legs, LAMBDA e : e.fix \in DOMAIN final_app_fixes)
    IN  [k \in DOMAIN m |-> m[k].fix]

\* any(list of fix names): some name is not the empty string.
AnyName(names) == \E k \in DOMAIN names : names[k] # ""

\* One transition of an approach procedure, kept only when it holds a final
\* approach fix.  Named after a beacon it is registered under its own key;
\* unnamed it is appended to every route the runway has so far and then to
\* the route keyed by its own first fix.
ApchTransition(ra, approach_id, runway, transition, tlines, beacons) ==
    LET name == transition.name
        ra1 == IF name \in DOMAIN beacons
               THEN AddLegs(ra, runway,
                            [head |-> IF name # "" THEN name ELSE tlines[1].fix,
                             proc |-> approach_id], tlines)
               ELSE ra
        row == Get(ra1, runway, <<>>)
        ext == [k \in DOMAIN row |->
                  [key |-> row[k].key, val |-> row[k].val \o tlines]]
        ra2 == AddLegs(Put(ra1, runway, ext), runway,
                       [head |-> tlines[1].fix, proc |-> approach_id], tlines)
    IN  IF Len(ContainsValidFaf(tlines)) = 0 THEN ra
        ELSE IF name = "" THEN ra2
        ELSE ra1

\* One approach procedure: its runway is its identifier without the first
\* character; its transitions in file order.
ApchProcedure(ra, approach_id, a_lines, beacons) ==
    LET transitions == ByTransition(a_lines)
        f[n \in 0..Len(transitions)] ==
            IF n = 0 THEN ra
            ELSE ApchTransition(f[n - 1], approach_id, approach_id.rw,
                                transitions[n].key, transitions[n].val, beacons)
    IN  f[Len(transitions)]

\* runway_approaches of write_approaches.
ApchMerge(lines, beacons) ==
    LET approach_list == ById(SelectSeq(lines, LAMBDA l : l.type = "F"))
        f[n \in 0..Len(approach_list)] ==
            IF n = 0 THEN <<>>
            ELSE ApchProcedure(f[n - 1], approach_list[n].key,
                               approach_list[n].val, beacons)
    IN  f[Len(approach_list)]

\* The altitude update of write_approaches (the same rule as write_stars).
ApchAlt(alt, e) ==
    IF Given(e.alt_min) THEN MinOf(alt, AltFeet(e.alt_min))
    ELSE IF Given(e.alt_top) THEN MinOf(alt, AltFeet(e.alt_top))
    ELSE alt

\* speed_alts = [a for a in alt_min_speeds.keys() if int(alt) <= a]
ApchSpeedAlts(alt) == {a \in DOMAIN alt_min_speeds : alt <= a}

\* alt_min_speeds[max(speed_alts)]
ApchBand(alt) == alt_min_speeds[MaxOfSet(ApchSpeedAlts(alt))]

\* One record of a merged approach route.  r holds the locals of the route:
\* app is app_string (lines not yet committed), blk the waypoint lines of
\* apch_string, brk the break at a fix the index lacks.
ApchLeg(r, e, beacons) ==
    LET common == e.transition.name = ""
        speed0 == IF common
                  THEN [str |-> FALSE, n |-> MinOf(r.speed.n, max_approach_speed)]
                  ELSE r.speed
        alt0 == IF common THEN MinOf(r.alt, max_approach_alt) ELSE r.alt
        speed1 == IF Given(e.speed) THEN [str |-> TRUE, n |-> e.speed.n] ELSE speed0
        alt1 == ApchAlt(alt0, e)
        speed2 == IF ApchSpeedAlts(alt1) # {}
                  THEN [str |-> FALSE, n |-> MinOf(speed1.n, ApchBand(alt1))]
                  ELSE speed1
        line == [k |-> "wpt", fix |-> e.fix, alt |-> alt1, speed |-> speed2.n,
                 pre |-> speed1.n, leg |-> e]
        r1 == [r EXCEPT !.fix_name = e.fix, !.speed = speed2, !.alt = alt1]
    IN  IF r.err # "" \/ r.brk THEN r
        ELSE IF e.fix # r.fix_name /\ e.fix # ""
        THEN IF e.fix \notin DOMAIN beacons
             THEN [r EXCEPT !.fix_name = e.fix, !.brk = TRUE]
             ELSE IF common /\ r.speed.str
             THEN [r EXCEPT !.fix_name = e.fix, !.err = "TypeError"]
             ELSE IF e.fix \in DOMAIN final_app_fixes
             THEN [r1 EXCEPT !.faf = e.fix, !.blk = @ \o r.app \o <<line>>,
                             !.app = <<>>]
             ELSE [r1 EXCEPT !.app = Append(@, line)]
        ELSE r

\* FinalLine with the running altitude and speed on the terminal line.
FinalLineRunning(faf, alt, speed) ==
    [k |-> "final", final_length |-> final_app_fixes[faf].final_length,
     alt |-> alt, speed |-> speed.n]

\* The terminal line of an approach block: the triple configured for faf.
FinalLine(faf, alt, speed) ==
    [k |-> "final", final_length |-> final_app_fixes[faf].final_length,
     alt |-> final_app_fixes[faf].alt, speed |-> final_app_fixes[faf].speed]

\* if faf: the block of a route is written only when the loop reached a
\* final approach fix; r holds the locals the loop left.
ApchBlock(s, header, r) ==
    IF r.err # "" THEN [s EXCEPT !.err = r.err]
    ELSE IF r.faf # ""
    THEN [s EXCEPT !.out = @ \o <<header>> \o r.blk
                             \o <<FinalLine(r.faf, r.alt, r.speed)>>]
    ELSE s

\* One merged route: kept when it holds a final approach fix; the counter
\* advances and the key's head is noted as used; the block is written only
\* when the loop reached a final approach fix.
ApchRoute(s, approach, route, runway, beacons) ==
    LET f[n \in 0..Len(route)] ==
            IF n = 0
            THEN [fix_name |-> "", speed |-> [str |-> FALSE, n |-> apch_default_top_speed],
                  alt |-> apch_default_top_alt, faf |-> "", app |-> <<>>, blk |-> <<>>,
                  brk |-> FALSE, err |-> ""]
            ELSE ApchLeg(f[n - 1], route[n], beacons)
    IN  IF s.err # "" THEN s
        ELSE IF ~AnyName(ContainsValidFaf(route)) THEN s
        ELSE ApchBlock([s EXCEPT !.i = @ + 1, !.used = Append(@, approach.head)],
                       [k |-> "approach", n |-> s.i + 1, label |-> approach,
                        runway |-> runway, beacon |-> approach.head, bearing |-> 360],
                       f[Len(route)])

\* The routes of one runway.
ApchRunway(s, runway, approaches, beacons) ==
    LET f[n \in 0..Len(approaches)] ==
            IF n = 0 THEN s
            ELSE ApchRoute(f[n - 1], approaches[n].key, approaches[n].val,
                           runway, beacons)
    IN  f[Len(approaches)]

\* The output loop of write_approaches and its beacons section.
ApchOutput(runway_approaches, beacons, start_index) ==
    LET f[n \in 0..Len(runway_approaches)] ==
            IF n = 0
            THEN [out |-> <<>>, i |-> start_index, used |-> <<>>, err |-> ""]
            ELSE ApchRunway(f[n - 1], runway_approaches[n].key,
                            runway_approaches[n].val, beacons)
    IN  [st |-> BeaconSection(f[Len(runway_approaches)], beacons),
         beacons |-> beacons, merged |-> runway_approaches]

\* write_approaches
write_approaches(lines, beacons0, start_index) ==
    Result(ApchOutput(ApchMerge(lines, UpdateBeacons(lines, beacons0)),
                      UpdateBeacons(lines, beacons0), start_index))

\* ------------------------------------------------------------ inputs

\* The longest procedure (in transitions) of the generated inputs.
MaxTransitions == 3

\* The number of records of the plain procedures, each with a restriction
\* drawn freely.
MaxLegs == 3

Row(type, apt, id, transition, fix, r) ==
    [type |-> type, apt |-> apt, id |-> id, transition |-> transition,
     fix |-> fix, speed |-> r.speed, alt_top |-> r.alt_top,
     alt_min |-> r.alt_min, hdg |-> ""]

Restr(speed, alt_top, alt_min) ==
    [speed |-> speed, alt_top |-> alt_top, alt_min |-> alt_min]

Free == Restr(NoVal, NoVal, NoVal)

\* The restrictions a record carries: none, a floor, a floor as a flight
\* level beside a ceiling, a ceiling, a speed.
Restrictions ==
    {Free,
     Restr(NoVal, NoVal, [k |-> "ft", n |-> 5000]),
     Restr(NoVal, [k |-> "ft", n |-> 2000], [k |-> "FL", n |-> 80]),
     Restr(NoVal, [k |-> "ft", n |-> 3000], NoVal),
     Restr([k |-> "str", n |-> 210], NoVal, NoVal)}

\* A profile gives the n-th record of a procedure its restriction.
Profiles == [1..MaxLegs -> Restrictions]

Descent ==
    [n \in 1..MaxLegs |->
        IF n = 1 THEN Restr(NoVal, NoVal, [k |-> "ft", n |-> 5000])
        ELSE IF n = 2 THEN Restr(NoVal, [k |-> "ft", n |-> 3000], NoVal)
        ELSE Free]

Unrestricted == [n \in 1..MaxLegs |-> Free]

RestrictionAt(profile, n) == IF n \in DOMAIN profile THEN profile[n] ELSE Free

\* A transition template: [rt, name, fixes].
Tmpl(rt, name, fixes) == [rt |-> rt, name |-> name, fixes |-> fixes]

\* The sequences of 1..MaxTransitions distinct templates.
Shapes(templates) ==
    UNION {{sh \in [1..n -> templates] :
               \A a, b \in 1..n : a # b => sh[a] # sh[b]} : n \in 1..MaxTransitions}

RECURSIVE Flatten(_)
Flatten(ss) == IF ss = <<>> THEN <<>> ELSE Head(ss) \o Flatten(Tail(ss))

\* The records of one procedure built from a shape: the fixes of its
\* templates in order, the n-th record restricted by the profile.
Procedure(type, apt, id, shape, profile) ==
    LET legs == Flatten([k \in DOMAIN shape |->
                    [j \in DOMAIN shape[k].fixes |->
                        [t |-> [rt |-> shape[k].rt, name |-> shape[k].name],
                         fix |-> shape[k].fixes[j]]]])
    IN  [n \in DOMAIN legs |->
            Row(type, apt, id, legs[n].t, legs[n].fix, RestrictionAt(profile, n))]

StarTemplates ==
    {Tmpl("1", "HAARP", <<"HAARP", "CAMRN">>),
     Tmpl("1", "KARRS", <<"KARRS", "KARRS", "CAMRN">>),
     Tmpl("1", "CAMRN", <<"CAMRN", "HAARP">>),
     Tmpl("2", "", <<"CAMRN", "ROSLY">>),
     Tmpl("3", "ALL", <<"LENDY", "DPK">>),
     Tmpl("3", "RW04", <<"LENDY", "DPK">>),
     Tmpl("3", "RW22", <<"NOFIX", "DPK">>)}

ApchTemplates ==
    {Tmpl("A", "CAMRN", <<"CAMRN", "LENDY">>),
     Tmpl("A", "LENDY", <<"LENDY", "ROSLY">>),
     Tmpl("A", "DPK", <<"DPK", "NOFIX", "TELEX">>),
     Tmpl("A", "NOFIX", <<"NOFIX", "TELEX">>),
     Tmpl("I", "", <<"LENDY", "ROSLY", "TELEX">>),
     Tmpl("L", "", <<"NOFIX", "ROSLY">>)}

SidTemplates ==
    {Tmpl("4", "RW04", <<"CAMRN", "DPK">>),
     Tmpl("4", "RW22", <<"LENDY", "LENDY", "", "DPK">>),
     Tmpl("4", "RW13", <<"CAMRN">>),
     Tmpl("4", "RW04", <<"DPK", "NOFIX">>)}

\* The fixes and navaids of the whole file (apt RNAV_FIX or VOR).
GlobalRows ==
    [n \in 1..6 |->
        Row(" ", IF n = 6 THEN "VOR" ELSE "RNAV_FIX",
            <<"CAMRN", "HAARP", "KARRS", "LENDY", "ROSLY", "TELEX">>[n],
            [rt |-> "", name |-> ""], "", Free)]

\* The reference records of one airport: the airport itself, one terminal
\* fix and two runways.
AirportRows(apt, ref) ==
    <<Row("A", apt, ref, [rt |-> "", name |-> ""], "", Free),
      Row("C", apt, "DPK", [rt |-> "", name |-> ""], "", Free),
      Row("G", apt, "RW04", [rt |-> "", name |-> ""], "", Free),
      Row("G", apt, "RW22", [rt |-> "", name |-> ""], "", Free)>>

ILS04 == [t |-> "I", rw |-> "04"]
RNV04 == [t |-> "R", rw |-> "04"]

\* The plain procedures have MaxLegs records: an arrival entering at KARRS
\* (its last record on the ALL transition), an approach from CAMRN ending at
\* the final approach fix ROSLY, a departure of two fixes.
PlainFixes(first, last) ==
    [n \in 1..MaxLegs |->
        IF n = 1 THEN first
        ELSE IF n = MaxLegs THEN last
        ELSE <<"LENDY", "DPK", "CAMRN">>[((n - 2) % 3) + 1]]

PlainStar ==
    <<Tmpl("1", "KARRS", SubSeq(PlainFixes("KARRS", "DPK"), 1, MaxLegs - 1)),
      Tmpl("3", "ALL", <<"DPK">>)>>
PlainApch == <<Tmpl("A", "CAMRN", PlainFixes("CAMRN", "ROSLY"))>>
PlainSid == <<Tmpl("4", "RW04", <<"CAMRN", "DPK">>)>>

\* The procedure records of one airport: one arrival, one approach and one
\* departure procedure, varied one at a time around the plain ones, and
\* inputs with two procedures of a kind.
Procedures(apt) ==
    {Procedure("E", apt, "LENDY8", PlainStar, p)
        \o Procedure("F", apt, ILS04, PlainApch, p)
        \o Procedure("D", apt, "BETTE3", PlainSid, Unrestricted) : p \in Profiles}
    \cup
    {Procedure("E", apt, "LENDY8", sh, p)
        \o Procedure("F", apt, ILS04, PlainApch, p)
        \o Procedure("D", apt, "BETTE3", PlainSid, Unrestricted) :
        sh \in Shapes(StarTemplates), p \in {Descent}}
    \cup
    {Procedure("E", apt, "LENDY8", PlainStar, p)
        \o Procedure("F", apt, ILS04, sh, p)
        \o Procedure("D", apt, "BETTE3", PlainSid, Unrestricted) :
        sh \in Shapes(ApchTemplates), p \in {Descent}}
    \cup
    {Procedure("E", apt, "LENDY8", PlainStar, Unrestricted)
        \o Procedure("F", apt, ILS04, PlainApch, Unrestricted)
        \o Procedure("D", apt, "BETTE3", sh, Unrestricted) : sh \in Shapes(SidTemplates)}
    \cup
    {Procedure("E", apt, "LENDY8", sh, Unrestricted)
        \o Procedure("E", apt, "PARCH3", <<Tmpl("1", "HAARP", <<"HAARP", "DPK">>),
                                           Tmpl("3", "RW04", <<"LENDY">>)>>, Descent)
        \o Procedure("F", apt, ILS04, ash, Unrestricted)
        \o Procedure("F", apt, RNV04, <<Tmpl("R", "", <<"DPK", "TELEX">>)>>, Descent)
        \o Procedure("D", apt, "BETTE3", PlainSid, Unrestricted)
        \o Procedure("D", apt, "KENNEDY1", PlainSid, Unrestricted) :
        sh \in {<<Tmpl("1", "HAARP", <<"HAARP", "CAMRN">>), Tmpl("3", "RW04", <<"LENDY", "DPK">>)>>,
                <<Tmpl("1", "KARRS", <<"KARRS", "CAMRN">>), Tmpl("3", "ALL", <<"LENDY">>)>>},
        ash \in {PlainApch, <<Tmpl("A", "LENDY", <<"LENDY", "ROSLY">>)>>}}

\* The parsed file (cifp_parsed.csv): the global fixes, then the records of
\* the three airports.  The second airport takes every generated input, the
\* first and the third the plain ones.
PlainProcedures(apt) ==
    Procedure("E", apt, "LENDY8", PlainStar, Descent)
        \o Procedure("F", apt, ILS04, PlainApch, Descent)
        \o Procedure("D", apt, "BETTE3", PlainSid, Unrestricted)

Inputs ==
    {GlobalRows
        \o AirportRows("KJFK", "JFK") \o first
        \o AirportRows("KLGA", "LGA") \o second
        \o AirportRows("KEWR", "EWR") \o PlainProcedures("KEWR") :
        first \in {PlainProcedures("KJFK")}, second \in Procedures("KLGA")}

\* ------------------------------------------------------------ the program

VARIABLES
    rows,             \* cifp_out/cifp_parsed.csv: the records of the input
    run,              \* 1 for the first execution of the program, 2 for the second
    pc,               \* the function the main loop calls next, "done" or "aborted"
    apt,              \* the index in airports of the airport being processed
    app_start_index,  \* the global counter of [approachN] headers
    sid_start_index,  \* the global counter of [departureN] headers
    i,                \* the local i of parse_approaches
    beacons,          \* the beacon index of the running parse_* call
    merged,           \* runway_stars / runway_approaches / runway_sids of the last pass
    files,            \* per airport, the lines of its three output files
    calls,            \* the write_* calls so far: arguments and outcome
    first_files       \* the files the first execution left

vars == <<rows, run, pc, apt, app_start_index, sid_start_index, i, beacons,
          merged, files, calls, first_files>>

Airport == airports[apt]

\* write_apt_data: the records of the airport followed by the global ones.
AptData(all, airport) ==
    SelectSeq(all, LAMBDA l : l.apt = airport)
        \o SelectSeq(all, LAMBDA l : l.apt \in {"RNAV_FIX", "VOR"})

\* beacons = {line['id']: line for line in beacon_list if apt is RNAV_FIX or VOR}
GlobalBeacons(all) ==
    LET g == SelectSeq(all, LAMBDA l : l.apt \in {"RNAV_FIX", "VOR"})
    IN  [n \in {g[k].id : k \in DOMAIN g} |-> [id |-> n]]

NoFiles == [a \in SeqToSet(airports) |-> [star |-> <<>>, approach |-> <<>>, sid |-> <<>>]]

Init ==
    /\ rows \in Inputs
    /\ run = 1
    /\ pc = "write_stars"
    /\ apt = 1
    /\ app_start_index = 0
    /\ sid_start_index = 0
    /\ i = 0
    /\ beacons = <<>>
    /\ merged = <<>>
    /\ files = NoFiles
    /\ calls = <<>>
    /\ first_files = NoFiles

\* ParseApproachesStart with the counter of every airport starting anew.
ParseApproachesRestart(start_index, global_index) == 0

\* i = app_start_index in parse_approaches: the counter the arrival pass
\* starts from is the module's global, which the main loop keeps equal to
\* the argument start_index.
ParseApproachesStart(start_index, global_index) == global_index

Call(fn, start, res) ==
    [fn |-> fn, apt |-> Airport, start_index |-> start, ret |-> res.i, err |-> res.err]

\* The return of write_stars to parse_approaches; an exception ends the
\* program.
StarsReturned(start, res) ==
    /\ files' = [files EXCEPT ![Airport].star = res.file]
    /\ beacons' = res.beacons
    /\ merged' = res.merged
    /\ calls' = Append(calls, Call("write_stars", start, res))
    /\ i' = IF res.err = "" THEN res.i ELSE i
    /\ pc' = IF res.err = "" THEN "write_approaches" ELSE "aborted"

\* The entry points section is written in one of the orders of set(entries).
StarsWritten(start, body) ==
    \E order \in SetOrders(SeqToSet(body.st.entries)) :
        StarsReturned(start, write_stars(body, order))

\* parse_approaches up to the return of write_stars.
WriteStars ==
    /\ pc = "write_stars"
    /\ LET start == ParseApproachesStart(app_start_index, app_start_index)
       IN  StarsWritten(start, StarBody(AptData(rows, Airport), GlobalBeacons(rows), start))
    /\ UNCHANGED <<rows, run, apt, app_start_index, sid_start_index, first_files>>

\* The return of write_approaches, whose result parse_approaches returns and
\* the main loop stores.
ApproachesReturned(res) ==
    /\ files' = [files EXCEPT ![Airport].approach = res.file]
    /\ beacons' = res.beacons
    /\ merged' = res.merged
    /\ calls' = Append(calls, Call("write_approaches", i, res))
    /\ i' = IF res.err = "" THEN res.i ELSE i
    /\ app_start_index' = IF res.err = "" THEN res.i ELSE app_start_index
    /\ pc' = IF res.err = "" THEN "write_sids" ELSE "aborted"

\* The rest of parse_approaches: write_approaches from the counter
\* write_stars returned.
WriteApproaches ==
    /\ pc = "write_approaches"
    /\ ApproachesReturned(write_approaches(AptData(rows, Airport), beacons, i))
    /\ UNCHANGED <<rows, run, apt, sid_start_index, first_files>>

\* The return of write_sids and the step of the main loop to the next
\* airport.
SidsReturned(res) ==
    /\ files' = [files EXCEPT ![Airport].sid = res.file]
    /\ beacons' = res.beacons
    /\ merged' = res.merged
    /\ calls' = Append(calls, Call("write_sids", sid_start_index, res))
    /\ sid_start_index' = IF res.err = "" THEN res.i ELSE sid_start_index
    /\ pc' = IF res.err # "" THEN "aborted"
             ELSE IF apt = Len(airports) THEN "done" ELSE "write_stars"
    /\ apt' = IF res.err = "" /\ apt < Len(airports) THEN apt + 1 ELSE apt

\* parse_sids.
WriteSids ==
    /\ pc = "write_sids"
    /\ SidsReturned(write_sids(AptData(rows, Airport), GlobalBeacons(rows), sid_start_index))
    /\ UNCHANGED <<rows, run, app_start_index, i, first_files>>

\* The program is started a second time on the same input; the files of
\* the first execution are kept for comparison and written anew.
Rerun ==
    /\ pc \in {"done", "aborted"}
    /\ run = 1
    /\ run' = 2
    /\ first_files' = files
    /\ pc' = "write_stars"
    /\ apt' = 1
    /\ app_start_index' = 0
    /\ sid_start_index' = 0
    /\ i' = 0
    /\ beacons' = <<>>
    /\ merged' = <<>>
    /\ files' = NoFiles
    /\ calls' = <<>>
    /\ UNCHANGED rows

Next == WriteStars \/ WriteApproaches \/ WriteSids \/ Rerun

Spec == Init /\ [][Next]_vars

\* ------------------------------------------------------------ reading the state

AirportSet == SeqToSet(airports)

\* The write_* call of this execution for one airport completed.
Completed(fn, a) ==
    \E k \in DOMAIN calls : calls[k].fn = fn /\ calls[k].apt = a /\ calls[k].err = ""

CallOf(fn, a) == calls[CHOOSE k \in DOMAIN calls : calls[k].fn = fn /\ calls[k].apt = a]

\* The positions of the lines of one kind in a file.
At(f, kind) == {k \in DOMAIN f : f[k].k = kind}

\* The two files that hold [approachN] blocks.
LevelFiles == {files[a].star : a \in AirportSet} \cup {files[a].approach : a \in AirportSet}

\* The section header that opens the block a line belongs to.
HeaderOf(f, k) == CHOOSE h \in At(f, "approach") : h < k /\ \A g \in At(f, "approach") : g < k => g <= h

\* The numbers of the section headers of a file, in the order written.
HeaderNumbers(f, kind) ==
    LET h == SelectSeq(f, LAMBDA x : x.k = kind)
    IN  [k \in DOMAIN h |-> h[k].n]

StrictlyIncreasing(ns) == \A k \in 1..(Len(ns) - 1) : ns[k] < ns[k + 1]

\* ------------------------------------------------------------ claims

\* C1. Altitude monotonic clamp: in every arrival and approach file, of two
\* consecutive waypoint lines of a block the second carries an altitude less
\* than or equal to the first.
C1_AltitudeMonotonic ==
    \A f \in LevelFiles :
        \A k \in 1..(Len(f) - 1) :
            (f[k].k = "wpt" /\ f[k + 1].k = "wpt") => f[k + 1].alt <= f[k].alt

\* A record whose floor lies above the altitude of the line before it was
\* written, in an arrival file and in an approach file.
RaisedFloor(f) ==
    \E k \in 1..(Len(f) - 1) :
        /\ f[k].k = "wpt" /\ f[k + 1].k = "wpt"
        /\ Given(f[k + 1].leg.alt_min)
        /\ AltFeet(f[k + 1].leg.alt_min) > f[k].alt

C1_Witness ==
    /\ \E a \in AirportSet : RaisedFloor(files[a].star)
    /\ \E a \in AirportSet : RaisedFloor(files[a].approach)

C3_CommonAfterEntry ==
    pc = "write_approaches" =>
        LET star_list == ById(SelectSeq(AptData(rows, Airport), LAMBDA l : l.type = "E"))
        IN  \A p \in DOMAIN star_list :
              LET transitions == ByTransition(star_list[p].val)
                  runways == StarRunways(transitions)
              IN  \A t, c \in DOMAIN transitions :
                    (/\ transitions[t].key.name # ""
                     /\ transitions[t].key.name \in DOMAIN beacons
                     /\ transitions[c].key.name = "")
                    => \A r \in DOMAIN runways :
                         LET route == Get(Get(merged, runways[r], <<>>),
                                          [head |-> transitions[t].key.name,
                                           proc |-> star_list[p].key], <<>>)
                             want == transitions[t].val \o transitions[c].val
                         IN  /\ Len(route) >= Len(want)
                             /\ SubSeq(route, 1, Len(want)) = want

\* A record of the airport holds a final approach fix in its transition.
GroupHasFaf(lines, leg) ==
    \E k \in DOMAIN lines :
        /\ lines[k].type = "F"
        /\ lines[k].id = leg.id
        /\ lines[k].transition = leg.transition
        /\ lines[k].fix \in DOMAIN final_app_fixes

\* C4. Approach retention: every waypoint line of an approach file comes
\* from a transition that holds a final approach fix, and every block
\* written holds a waypoint line at a final approach fix.
C4_ApproachRetention ==
    \A a \in AirportSet :
        LET f == files[a].approach
        IN  /\ \A k \in At(f, "wpt") : GroupHasFaf(AptData(rows, a), f[k].leg)
            /\ \A h \in At(f, "approach") :
                 \E k \in At(f, "wpt") :
                    /\ HeaderOf(f, k) = h
                    /\ f[k].fix \in DOMAIN final_app_fixes

\* An airport whose approach file holds a block and whose input holds an
\* approach transition, named after a known beacon, without a final
\* approach fix.
C4_Witness ==
    \E a \in AirportSet :
        /\ Completed("write_approaches", a)
        /\ At(files[a].approach, "approach") # {}
        /\ LET lines == AptData(rows, a)
           IN  \E k \in DOMAIN lines :
                 /\ lines[k].type = "F"
                 /\ lines[k].transition.name \in DOMAIN GlobalBeacons(rows)
                 /\ ~GroupHasFaf(lines, lines[k])

\* C5. Final-fix override: the terminal line of every approach block follows
\* the waypoint line of a final approach fix and carries the length,
\* altitude and speed configured for that fix; every block ends with one.
C5_FinalFixOverride ==
    \A a \in AirportSet :
        LET f == files[a].approach
        IN  /\ \A k \in At(f, "final") :
                 /\ k > 1 /\ f[k - 1].k = "wpt"
                 /\ f[k - 1].fix \in DOMAIN final_app_fixes
                 /\ f[k].final_length = final_app_fixes[f[k - 1].fix].final_length
                 /\ f[k].alt = final_app_fixes[f[k - 1].fix].alt
                 /\ f[k].speed = final_app_fixes[f[k - 1].fix].speed
            /\ \A h \in At(f, "approach") :
                 \E k \in At(f, "final") :
                    k > h /\ \A j \in (h + 1)..(k - 1) : f[j].k = "wpt"

\* Two blocks reach the same final approach fix with different running
\* altitudes, neither the altitude configured for the fix.
C5_Witness ==
    \E a, b \in AirportSet :
        LET f == files[a].approach
            g == files[b].approach
        IN  \E k \in At(f, "final"), j \in At(g, "final") :
              /\ f[k - 1].fix = g[j - 1].fix
              /\ f[k - 1].alt # g[j - 1].alt
              /\ f[k - 1].alt # f[k].alt
              /\ g[j - 1].alt # g[j].alt

\* The fixes of the waypoint lines of a file and the names its beacons
\* section lists.
WaypointFixes(f) == {f[k].fix : k \in At(f, "wpt") \cup At(f, "fix")}
BeaconNames(f) == {f[k].name : k \in At(f, "beacon")}

\* C6 as stated. Conservation: in every output file that has its beacons
\* section, the names the section lists are the fixes of the waypoint lines
\* of the file.
C6_Conservation ==
    \A a \in AirportSet :
        \A f \in {files[a].sid, files[a].star, files[a].approach} :
            At(f, "beacons") # {} => BeaconNames(f) = WaypointFixes(f)

\* C7 as stated. Determinism: the second execution of the program on the
\* same records leaves, in every file, the lines the first one left.
C7_Determinism == (run = 2 /\ pc = "done") => files = first_files

\* The headers of a file as (entry fix, runway) pairs.
EntryPairs(f) == [k \in DOMAIN SelectSeq(f, LAMBDA x : x.k = "approach") |->
                    <<SelectSeq(f, LAMBDA x : x.k = "approach")[k].beacon,
                      SelectSeq(f, LAMBDA x : x.k = "approach")[k].runway>>]

\* The headers of a file as (entry name, runway) pairs, the entry name
\* being the entry fix with the procedure.
EntryNamePairs(f) == [k \in DOMAIN SelectSeq(f, LAMBDA x : x.k = "approach") |->
                        <<SelectSeq(f, LAMBDA x : x.k = "approach")[k].label,
                          SelectSeq(f, LAMBDA x : x.k = "approach")[k].runway>>]

Distinct(seq) == \A a, b \in DOMAIN seq : a # b => seq[a] # seq[b]

\* C8 as stated. Arrival de-duplication: an arrival file holds at most one
\* block per (entry fix, runway) pair.
C8_OnePerEntryFix == \A a \in AirportSet : Distinct(EntryPairs(files[a].star))

\* A completed arrival file is a sequence of blocks: a header, waypoint
\* lines, one terminal line.
StarBlocks(f) ==
    /\ \A k \in At(f, "wpt") \cup At(f, "end") : k > 1 /\ f[k - 1].k \in {"approach", "wpt"}
    /\ \A k \in At(f, "approach") : k < Len(f) /\ f[k + 1].k \in {"wpt", "end"}
    /\ \A k \in At(f, "wpt") : k < Len(f) /\ f[k + 1].k \in {"wpt", "end"}

\* C8 as amended. An arrival file holds at most one block per (entry fix
\* with procedure, runway) pair; the counter a completed pass returns has
\* advanced by the number of headers written, and the file holds whole
\* blocks only.
C8_OnePerEntryName ==
    \A a \in AirportSet :
        /\ Distinct(EntryNamePairs(files[a].star))
        /\ Completed("write_stars", a) =>
             /\ CallOf("write_stars", a).ret - CallOf("write_stars", a).start_index
                    = Cardinality(At(files[a].star, "approach"))
             /\ StarBlocks(files[a].star)

\* The entry names of a merged route for a runway: the entry-point fixes it
\* meets first, with its procedure.
RouteEntry(key, route) ==
    {[head |-> route[k].fix, proc |-> key.proc] : k \in
        {j \in DOMAIN route : /\ route[j].fix \in DOMAIN entrypoints
                              /\ \A h \in 1..(j - 1) : route[h].fix \notin DOMAIN entrypoints}}

\* write_stars has returned for an airport whose merged routes hold, under
\* the runways ALL and RW04, routes with the same entry name, and the block
\* of that entry name for RW04 is in the file once.
C8_Witness ==
    /\ pc = "write_approaches"
    /\ \E x \in DOMAIN Get(merged, "ALL", <<>>), y \in DOMAIN Get(merged, "RW04", <<>>) :
         LET ex == RouteEntry(Get(merged, "ALL", <<>>)[x].key, Get(merged, "ALL", <<>>)[x].val)
             ey == RouteEntry(Get(merged, "RW04", <<>>)[y].key, Get(merged, "RW04", <<>>)[y].val)
         IN  \E n \in ex \cap ey :
               Cardinality({k \in At(files[Airport].star, "approach") :
                               /\ files[Airport].star[k].label = n
                               /\ files[Airport].star[k].runway = "RW04"}) = 1

\* C9 as stated. Unknown fix is skipped, not fatal: no pass stops on a fix
\* the beacon index lacks, no waypoint line is written for such a fix, and
\* an approach route keeps its legs after the unknown one: a route whose
\* final approach fix is known has its block.
C9_UnknownFixSkipped ==
    /\ \A k \in DOMAIN calls : calls[k].err # "KeyError"
    /\ \A a \in AirportSet :
         \A f \in {files[a].sid, files[a].star, files[a].approach} :
            WaypointFixes(f) \subseteq (DOMAIN GlobalBeacons(rows)) \cup {a, "DPK"}
    /\ pc = "write_sids" =>
         \A r \in DOMAIN merged : \A x \in DOMAIN merged[r].val :
            LET route == merged[r].val[x].val
            IN  (\E k \in DOMAIN route : /\ route[k].fix \in DOMAIN final_app_fixes
                                         /\ route[k].fix \in DOMAIN beacons)
                => \E h \in At(files[Airport].approach, "approach") :
                      files[Airport].approach[h].label = merged[r].val[x].key

\* The numbers of the [approachN] headers of the whole run in the order
\* written: per airport the arrival file, then the approach file.
ApproachNumbers ==
    LET per == [k \in DOMAIN airports |->
                  HeaderNumbers(files[airports[k]].star, "approach")
                      \o HeaderNumbers(files[airports[k]].approach, "approach")]
    IN  Flatten(per)

\* The numbers of the [departureN] headers of the whole run.
DepartureNumbers ==
    Flatten([k \in DOMAIN airports |-> HeaderNumbers(files[airports[k]].sid, "departure")])

\* C10. Identifier uniqueness across passes: over the airports in turn, the
\* numbers of the [approachN] headers of the arrival and approach files
\* strictly increase in the order written, and so do the numbers of the
\* [departureN] headers of the departure files.
C10_IdentifiersIncrease ==
    /\ StrictlyIncreasing(ApproachNumbers)
    /\ StrictlyIncreasing(DepartureNumbers)

\* The run is over with headers in the arrival and the approach file of
\* every airport and departure headers in more than one.
C10_Witness ==
    /\ pc = "done"
    /\ \A a \in AirportSet :
         /\ At(files[a].star, "approach") # {}
         /\ At(files[a].approach, "approach") # {}
         /\ At(files[a].sid, "departure") # {}

\* C11 as stated. Sequential identifiers without gaps: for every arrival
\* and approach pass that returned, the value returned is start_index plus
\* the number of section headers in its file, and the headers carry
\* start_index + 1, start_index + 2, ... in the order written.
C11_NoGaps ==
    \A k \in DOMAIN calls :
        (calls[k].fn \in {"write_stars", "write_approaches"} /\ calls[k].err = "")
        => LET f == IF calls[k].fn = "write_stars"
                    THEN files[calls[k].apt].star ELSE files[calls[k].apt].approach
               ns == HeaderNumbers(f, "approach")
           IN  /\ calls[k].ret = calls[k].start_index + Len(ns)
               /\ \A n \in DOMAIN ns : ns[n] = calls[k].start_index + n

\* The number of places at which legs lies in route as a contiguous run.
Occurrences(route, legs) ==
    Cardinality({k \in 0..(Len(route) - Len(legs)) :
                    SubSeq(route, k + 1, k + Len(legs)) = legs})

\* The position of a key in a dict, 0 when the dict lacks it.
KeyIndex(d, key) == IF Has(d, key) THEN CHOOSE k \in DOMAIN d : d[k].key = key ELSE 0

\* C12 as stated. Approach common-segment merge: once write_approaches has
\* merged the approaches of an airport, for every procedure and every
\* unnamed (common) transition of it that holds a final approach fix, the
\* route keyed by the first fix of the common transition and every route
\* registered before it for the runway hold the legs of the common
\* transition, and none of the routes of the runway holds them more than
\* once.
C12_CommonOnce ==
    pc = "write_sids" =>
        LET approach_list == ById(SelectSeq(AptData(rows, Airport), LAMBDA l : l.type = "F"))
        IN  \A p \in DOMAIN approach_list :
              LET transitions == ByTransition(approach_list[p].val)
                  row == Get(merged, approach_list[p].key.rw, <<>>)
              IN  \A c \in DOMAIN transitions :
                    (/\ transitions[c].key.name = ""
                     /\ Len(ContainsValidFaf(transitions[c].val)) > 0)
                    => LET own == KeyIndex(row, [head |-> transitions[c].val[1].fix,
                                                 proc |-> approach_list[p].key])
                       IN  /\ own > 0
                           /\ \A x \in DOMAIN row :
                                /\ Occurrences(row[x].val, transitions[c].val) <= 1
                                /\ x <= own => Occurrences(row[x].val, transitions[c].val) = 1

\* The position of the first leg of a route whose fix is an entry point, 0
\* when the route has none.
EntryIndex(route) ==
    IF \E j \in DOMAIN route : route[j].fix \in DOMAIN entrypoints
    THEN CHOOSE j \in DOMAIN route :
            /\ route[j].fix \in DOMAIN entrypoints
            /\ \A h \in 1..(j - 1) : route[h].fix \notin DOMAIN entrypoints
    ELSE 0

\* The legs of a route from position j on, a leg left out when its fix is
\* the fix of the leg before it.
LegsFrom(route, j) ==
    LET w[n \in (j - 1)..Len(route)] ==
            IF n = j - 1 THEN <<>>
            ELSE IF n = j \/ route[n].fix # route[n - 1].fix
                 THEN Append(w[n - 1], route[n])
                 ELSE w[n - 1]
    IN  w[Len(route)]

\* The legs of the waypoint lines of the block a header opens.
BlockLegs(f, h) ==
    [k \in 1..Cardinality({x \in At(f, "wpt") : HeaderOf(f, x) = h}) |-> f[h + k].leg]

IsPrefix(a, b) == Len(a) <= Len(b) /\ a = SubSeq(b, 1, Len(a))

\* write_stars was the last pass called: merged holds its runway_stars.
AfterWriteStars == calls # <<>> /\ calls[Len(calls)].fn = "write_stars"

\* C13. Arrival entry truncation: in the arrival file, every waypoint and
\* terminal line lies in a block; every block belongs to a merged route of
\* its procedure and runway that has a leg at an entry point, names the
\* first such leg as its beacon, and its waypoint lines are, in order, the
\* legs of the route from that leg on (as far as the pass got), the first
\* line being that leg; no line comes from a leg before it or from a route
\* without an entry point.
C13_EntryTruncation ==
    AfterWriteStars =>
        LET f == files[Airport].star
        IN  /\ \A k \in At(f, "wpt") \cup At(f, "end") :
                 k > 1 /\ f[k - 1].k \in {"approach", "wpt"}
            /\ \A h \in At(f, "approach") :
                 \E r \in DOMAIN merged : \E x \in DOMAIN merged[r].val :
                    /\ merged[r].key \in {"ALL", f[h].runway}
                    /\ merged[r].val[x].key.proc = f[h].label.proc
                    /\ EntryIndex(merged[r].val[x].val) > 0
                    /\ merged[r].val[x].val[EntryIndex(merged[r].val[x].val)].fix = f[h].beacon
                    /\ IsPrefix(BlockLegs(f, h),
                                LegsFrom(merged[r].val[x].val,
                                         EntryIndex(merged[r].val[x].val)))

\* write_stars has written a block for a route whose entry point is not its
\* first leg, the block starting at the entry point, and has met a route
\* without an entry point.
C13_Witness ==
    /\ AfterWriteStars
    /\ \E r \in DOMAIN merged : \E x \in DOMAIN merged[r].val :
         EntryIndex(merged[r].val[x].val) = 0
    /\ \E h \in At(files[Airport].star, "approach") :
         \E r \in DOMAIN merged : \E x \in DOMAIN merged[r].val :
            /\ merged[r].key \in {"ALL", files[Airport].star[h].runway}
            /\ merged[r].val[x].key.proc = files[Airport].star[h].label.proc
            /\ EntryIndex(merged[r].val[x].val) > 1
            /\ BlockLegs(files[Airport].star, h) # <<>>
            /\ BlockLegs(files[Airport].star, h)
                 = LegsFrom(merged[r].val[x].val, EntryIndex(merged[r].val[x].val))

=============================================================================
